---------------------------- MODULE Spec2Model ----------------------------
(***************************************************************************)
(* A model of the llm-server of AugmentedScraper (src/llm-server/main.py,  *)
(* src/llm-server/utils.py): the queue consumer redis_worker, the article  *)
(* processing of ModelInterface (embed_text, process_article) and the chat *)
(* path (load_conversation_from_backend, reset_memory, chat,               *)
(* update_conversation_in_backend) over the process-wide LLM singleton.    *)
(*                                                                         *)
(* Strings the code inspects are sequences of one-character strings, so    *)
(* that str.split, " ".join and len are computed and not assumed.          *)
(***************************************************************************)
EXTENDS Integers, Sequences, FiniteSets, TLC

(***************************************************************************)
(* Bounds of the model.                                                    *)
(***************************************************************************)
\* number of items the producer puts on queue:tasks (task ids 1..MaxTasks)
MaxTasks == 2

\* the number of POST /chat requests
MaxChats == 2

\* the most chunks of an article that embed_text is run on
MaxChunks == 2

\* the longest text chunk_text is run on, in characters
MaxTextLen == 5

\* the largest max_chunk_size chunk_text is run with, in tenths
MaxChunkSize == 40

(***************************************************************************)
(* Program constants.                                                      *)
(***************************************************************************)
\* utils.py:17, the 1.3 tokens per word, in tenths
WordWeight == 13
\* main.py:161, max_chunk_size=1500, in tenths
EmbedChunkSize == 15000
\* main.py:185, chunks shorter than 10 characters are skipped
MinChunkLen == 10
\* main.py:343, n_results=10
NResults == 10
\* main.py:362, filtered_documents[:3]
TopChunks == 3

None == "None"
TaskIds == 1..MaxTasks

(***************************************************************************)
(* Strings.                                                                *)
(***************************************************************************)
Rep(c, n) == [i \in 1..n |-> c]

IsSpace(c) == c \in {" ", "\n"}

\* str.split(): the maximal runs of non-whitespace characters, in order
RECURSIVE SplitFrom(_, _, _, _)
SplitFrom(s, i, word, acc) ==
    IF i > Len(s)
    THEN IF word = <<>> THEN acc ELSE Append(acc, word)
    ELSE IF IsSpace(s[i])
         THEN SplitFrom(s, i + 1, <<>>, IF word = <<>> THEN acc ELSE Append(acc, word))
         ELSE SplitFrom(s, i + 1, Append(word, s[i]), acc)

Split(s) == SplitFrom(s, 1, <<>>, <<>>)

\* " ".join(words)
RECURSIVE Join(_)
Join(words) ==
    IF words = <<>> THEN <<>>
    ELSE IF Len(words) = 1 THEN words[1]
    ELSE words[1] \o <<" ">> \o Join(Tail(words))

\* str.strip() is empty: the string holds whitespace only
IsBlank(s) == \A i \in 1..Len(s) : IsSpace(s[i])

(***************************************************************************)
(* utils.chunk_text                                                        *)
(***************************************************************************)
\* a variant of the test of line 19 that also closes a chunk the word fills
OverflowsOrFills(current_size, word_size, max_chunk_size) ==
    current_size + word_size >= max_chunk_size

\* utils.py:19, current_size + word_size > max_chunk_size
Overflows(current_size, word_size, max_chunk_size) ==
    current_size + word_size > max_chunk_size

\* a variant of line 21 that starts the new chunk empty
SeedEmpty(word) == <<>>

\* utils.py:21, current_chunk = [word]
Seed(word) == <<word>>

RECURSIVE ChunkLoop(_, _, _, _, _, _)
ChunkLoop(words, i, chunks, current_chunk, current_size, max_chunk_size) ==
    IF i > Len(words)
    THEN IF current_chunk # <<>> THEN Append(chunks, Join(current_chunk)) ELSE chunks
    ELSE LET word == words[i]
             word_size == Len(Split(word)) * WordWeight
         IN  IF /\ Overflows(current_size, word_size, max_chunk_size)
                /\ current_chunk # <<>>
             THEN ChunkLoop(words, i + 1, Append(chunks, Join(current_chunk)),
                            Seed(word), word_size, max_chunk_size)
             ELSE ChunkLoop(words, i + 1, chunks, Append(current_chunk, word),
                            current_size + word_size, max_chunk_size)

\* max_chunk_size is given in tenths, like WordWeight
chunk_text(text, max_chunk_size) ==
    ChunkLoop(Split(text), 1, <<>>, <<>>, 0, max_chunk_size)

(***************************************************************************)
(* Responses of the embedding call, self.client.embed.  A response either  *)
(* raises, is malformed (falsy, or without the key "embeddings"), or holds *)
(* under "embeddings" the vector vec wrapped in nest further lists:        *)
(* nest = 0 is [v1, ..], nest = 1 is [[v1, ..]], nest = 2 is [[[v1, ..]]]. *)
(***************************************************************************)
EmbedResponse(kind, nest, vec) == [kind |-> kind, nest |-> nest, vec |-> vec]

Vectors == {<<>>, <<7>>}

EmbedResponses ==
    {EmbedResponse("raise", 0, <<>>), EmbedResponse("malformed", 0, <<>>)}
    \cup {EmbedResponse("ok", n, v) : n \in 0..2, v \in Vectors}

\* main.py:207-210, the flattening loop; embeddings[0] of an empty list is
\* an IndexError
RECURSIVE FlattenLoop(_, _)
FlattenLoop(nest, vec) ==
    IF nest = 0 /\ vec = <<>> THEN [error |-> TRUE, vec |-> <<>>]
    ELSE IF nest = 0 THEN [error |-> FALSE, vec |-> vec]
    ELSE FlattenLoop(nest - 1, vec)

Flatten(nest, vec) ==
    IF nest = 0 /\ vec = <<>>
    THEN [error |-> FALSE, vec |-> <<>>]     \* len(embeddings) > 0 is false
    ELSE FlattenLoop(nest, vec)

(***************************************************************************)
(* ModelInterface.embed_text                                               *)
(***************************************************************************)
EmptyBatch == [ids |-> <<>>, embeddings |-> <<>>, documents |-> <<>>,
               metadatas |-> <<>>, successful_chunks |-> 0]

\* a variant of the id that counts the chunks from one
chunk_id_from_one(uuid, i) == <<uuid, "chunk", i + 1>>

\* main.py:224, f"{uuid}_chunk_{i}"
chunk_id(uuid, i) == <<uuid, "chunk", i>>

\* one pass of the loop body of main.py:174-243 for chunks[i] (i from 1, the
\* code's index is i - 1); every continue and the except of line 242 leave
\* the batch as it was
EmbedChunk(all, chunks, i, uuid, response) ==
    LET chunk == chunks[i]
        flat  == Flatten(response.nest, response.vec)
    IN  IF chunk = <<>> \/ IsBlank(chunk) THEN all
        ELSE IF Len(chunk) < MinChunkLen THEN all
        ELSE IF response.kind = "raise" THEN all
        ELSE IF response.kind = "malformed" THEN all
        ELSE IF flat.error THEN all
        ELSE IF flat.vec = <<>> THEN all
        ELSE [ids |-> Append(all.ids, chunk_id(uuid, i - 1)),
              embeddings |-> Append(all.embeddings, flat.vec),
              documents |-> Append(all.documents, chunk),
              metadatas |-> Append(all.metadatas,
                               [uuid |-> uuid, chunk_index |-> i - 1,
                                total_chunks |-> Len(chunks)]),
              successful_chunks |-> all.successful_chunks + 1]

RECURSIVE EmbedChunks(_, _, _, _, _)
EmbedChunks(all, chunks, i, uuid, responses) ==
    IF i > Len(chunks) THEN all
    ELSE EmbedChunks(EmbedChunk(all, chunks, i, uuid, responses[i]),
                     chunks, i + 1, uuid, responses)

\* a variant of the length test of lines 246-254 that lets every batch pass
LengthMismatchIgnored(all) == FALSE

\* main.py:246-250
LengthMismatch(all) ==
    \/ Len(all.embeddings) # Len(all.documents)
    \/ Len(all.documents) # Len(all.metadatas)
    \/ Len(all.metadatas) # Len(all.ids)

\* `not uuid` is false: task ids are 1.., and 0 stands for a missing one
HasUuid(uuid) == uuid # 0

NoEmbedEffect == [exc |-> FALSE, calls |-> <<>>, stored |-> <<>>]

\* main.py:245-298: the batch is handed to collection.add, in one call, when
\* its four arrays are of one length and it is not empty; add is the outcome
\* of collection.add ("ok" or "raise")
store_batch(all, add) ==
    IF LengthMismatch(all) THEN NoEmbedEffect
    ELSE IF all.embeddings # <<>> /\ all.successful_chunks > 0
         THEN [exc |-> FALSE, calls |-> <<all>>,
               stored |-> IF add = "ok" THEN <<all>> ELSE <<>>]
         ELSE NoEmbedEffect

\* main.py:163-298: embed_text from the chunks that line 161 returned
embed_chunks(chunks, uuid, responses, add) ==
    IF chunks = <<>> THEN NoEmbedEffect
    ELSE store_batch(EmbedChunks(EmptyBatch, chunks, 1, uuid, responses), add)

\* the body of the outer try of embed_text, main.py:149-298.  chunking is
\* the outcome of chunk_text ("ok" or "raise"), responses the embedding
\* responses per chunk, add the outcome of collection.add.  calls are the
\* batches handed to collection.add, stored those the index kept.
embed_text_body(text, uuid, chunking, responses, add) ==
    IF text = <<>> \/ IsBlank(text) THEN NoEmbedEffect
    ELSE IF ~HasUuid(uuid) THEN NoEmbedEffect
    ELSE IF chunking = "raise" THEN [NoEmbedEffect EXCEPT !.exc = TRUE]
    ELSE embed_chunks(chunk_text(text, EmbedChunkSize), uuid, responses, add)

\* a variant of the handler of lines 300-304 that raises again
EmbedOuterExceptReraisesAgain == TRUE

\* the handler of the outer try, main.py:300-304: it logs and falls off the
\* end of the function
EmbedOuterExceptReraises == FALSE

\* embed_text as its caller sees it: raised, and the effect on the index
embed_text(text, uuid, chunking, responses, add) ==
    LET body == embed_text_body(text, uuid, chunking, responses, add)
    IN  [raised |-> body.exc /\ EmbedOuterExceptReraises, caught |-> body.exc,
         calls |-> body.calls, stored |-> body.stored]

\* the documents of a batch as the index holds them
BatchDocs(batch) ==
    {[id |-> batch.ids[k], embedding |-> batch.embeddings[k],
      document |-> batch.documents[k], metadata |-> batch.metadatas[k]] :
        k \in 1..Len(batch.ids)}

(***************************************************************************)
(* The data of the consumer: queue items, urls, store rows.                *)
(***************************************************************************)
Url(scheme, netloc) == [scheme |-> scheme, netloc |-> netloc]

\* one url that passes is_valid_url and one that does not (no scheme)
Urls == {Url("http", "a"), Url("", "b")}

\* utils.is_valid_url: all([result.scheme, result.netloc])
is_valid_url(url) == url.scheme # "" /\ url.netloc # ""

\* The raw data of a queue item: "ok" is a JSON object with url and uuid,
\* "badjson" is no JSON or holds no "url" (json.loads or data["url"] raises),
\* "nouuid" is an object with "url" and without "uuid" (data["uuid"] raises).
ItemKinds == {"ok", "badjson", "nouuid"}

Item(kind, url, uuid) == [kind |-> kind, url |-> url, uuid |-> uuid]

\* A value of url_task:{url}: no key, a string that is no JSON, or the row
\* {uuid, status} as JSON.
Row(kind, uuid, status) == [kind |-> kind, uuid |-> uuid, status |-> status]

NoRow == Row("none", 1, "none")

GarbageRow == Row("garbage", 1, "none")

\* A value of cache:{url}
\* (processed_at, the clock's reading, is left out)
CacheEntry(present, url, summary, sentiment, conversation) ==
    [present |-> present, url |-> url, summary |-> summary,
     sentiment |-> sentiment, conversation |-> conversation]

NoCache == CacheEntry(FALSE, Url("", ""), "", "", <<>>)

\* the article texts scrape_url returns: a page of blanks, a page with one
\* short word, a page with two words of 6 characters
Texts == {<<" ", " ">>, <<"a", "b">>, Rep("a", 6) \o <<" ">> \o Rep("b", 6)}

\* main.py:547-550, the result process_article substitutes
DefaultResult == [summary |-> "Error processing article", sentiment |-> "neutral"]

\* what the model answers to the two instructions of process_article
ModelSummary == "summary"

ModelSentiment == "positive"

(***************************************************************************)
(* State.                                                                  *)
(***************************************************************************)
VARIABLES
    queue,          \* the list queue:tasks
    status,         \* status:{uuid}, per task id ("none": no such key)
    url_task,       \* url_task:{url}, per url
    cache,          \* cache:{url}, per url
    published,      \* the messages published on process:results
    collection,     \* the documents of the ChromaDB collection "articles"
    nextId,         \* the next task id the producer hands out
    pc,             \* where redis_worker stands
    locals,         \* url and task_uuid of redis_worker, when bound: the
                    \* locals a later iteration can read before it binds them
    frame,          \* url_task_data, text, summary and result of the
                    \* iteration under way; every iteration binds them before
                    \* it reads them, and the model drops them at its end
    statusLog,      \* history: per task id, the values its status has taken
    taskUrl,        \* history: per task id, the url it was enqueued with
    it,             \* history: what the current loop iteration has done
    memory,         \* LLM.memory, the one list of the ModelInterface singleton
    conv,           \* the backend's persisted conversation, per task id
    chat,           \* per /chat request: where chat_endpoint stands, with
                    \* its locals and (history) what it sent out
    ingest,         \* one embed_text call from its chunks on: the inputs and
                    \* (history) what it handed to the index
    retrieval,      \* one retrieve_text call: the inputs and what it returned
    chunk_call,     \* one chunk_text call: the inputs and what it returned
    models_ready,   \* the global flag models_ready
    models_ready_lock,  \* who holds the lock of that name
    poller,         \* the thread model_readiness_checker: where it stands and
                    \* (history) what it saw and sent
    ollama,         \* what ollama's /api/ps answers at present
    is_loaded       \* a GET /is-model-loaded request: where it stands

workerVars == <<pc, locals, frame, it>>
storeVars == <<queue, status, url_task, cache, published, statusLog>>
indexVars == <<collection>>
producerVars == <<nextId, taskUrl>>
chatVars == <<memory, conv, chat>>
ingestVars == <<ingest, retrieval, chunk_call>>
pollerVars == <<models_ready, models_ready_lock, poller, ollama, is_loaded>>
consumerVars == <<queue, status, url_task, cache, published, statusLog,
                  nextId, taskUrl, pc, locals, frame, it>>

\* name is bound in l: "name" in locals()
Bound(l, name) == name \in DOMAIN l

Bind(l, name, value) ==
    [n \in DOMAIN l \cup {name} |-> IF n = name THEN value ELSE l[n]]

NoLocals == [n \in {} |-> None]

NoFrame == [url_task_data |-> NoRow, text |-> <<>>, summary |-> "",
            result |-> [summary |-> "", sentiment |-> ""]]

\* the history of an iteration that starts with item
NewIteration(item) ==
    [item |-> item, failed_at |-> "none", crashed_at |-> "none", add_calls |-> <<>>,
     processing_written |-> FALSE, cache_written |-> FALSE,
     done_written |-> FALSE, pubs |-> 0, embed_done |-> FALSE,
     embed_caught |-> FALSE, embed_raised |-> FALSE,
     model_raised |-> FALSE, summary_called |-> FALSE,
     sentiment_called |-> FALSE]

NoItem == Item("none", Url("", ""), 1)

\* a write of value to status:{uuid}
SetStatus(uuid, value) ==
    /\ status' = [status EXCEPT ![uuid] = value]
    /\ statusLog' = [statusLog EXCEPT
           ![uuid] = IF status[uuid] = value THEN @ ELSE Append(@, value)]

(***************************************************************************)
(* The external producer: it enqueues a task under a fresh id, records it  *)
(* as pending and may write the url's mapping row.                         *)
(***************************************************************************)
Produce(kind, u, rowKind) ==
    /\ nextId <= MaxTasks
    /\ pc # "crashed"
    /\ queue' = Append(queue, Item(kind, u, nextId))
    /\ status' = [status EXCEPT ![nextId] = "pending"]
    /\ statusLog' = [statusLog EXCEPT ![nextId] = <<"pending">>]
    /\ url_task' = CASE rowKind = "row" ->
                          [url_task EXCEPT ![u] = Row("row", nextId, "pending")]
                     [] rowKind = "garbage" ->
                          [url_task EXCEPT ![u] = GarbageRow]
                     [] OTHER -> url_task
    /\ taskUrl' = [taskUrl EXCEPT ![nextId] = u]
    /\ nextId' = nextId + 1
    /\ UNCHANGED <<cache, published, indexVars, workerVars, chatVars, ingestVars, pollerVars>>

\* A well-formed item comes with any url and any write of the url's row; a
\* malformed one leaves the rows alone, and one without a url names none.
\* Once the consumer's thread has ended nothing reads the queue any more, and
\* the model stops the producer there.
AnyUrl == CHOOSE u \in Urls : TRUE

Producer ==
    \/ \E u \in Urls, rowKind \in {"keep", "row", "garbage"} : Produce("ok", u, rowKind)
    \/ \E u \in Urls : Produce("nouuid", u, "keep")
    \/ Produce("badjson", AnyUrl, "keep")

(***************************************************************************)
(* redis_worker, main.py:586-662.  One action per call that leaves the     *)
(* process; each such call returns or raises.                              *)
(***************************************************************************)
\* a variant of line 649 that swallows the exception and starts the loop
\* again
RaiseSwallowed(site) ==
    /\ pc' = "blpop"
    /\ it' = [it EXCEPT !.failed_at = site]
    /\ frame' = NoFrame

\* an exception reaches the except clause of line 649
Raise(site) ==
    /\ pc' = "except"
    /\ it' = [it EXCEPT !.failed_at = site]
    /\ frame' = NoFrame

\* an exception leaves the except clause: it leaves the while loop and the
\* function, and the thread ends
Crash(site) ==
    /\ pc' = "crashed"
    /\ it' = [it EXCEPT !.crashed_at = site]
    /\ frame' = NoFrame

\* the next step of the iteration under way
Goto(label) ==
    /\ pc' = label
    /\ it' = it
    /\ frame' = frame

\* the end of the loop body: back to line 588
EndIteration ==
    /\ pc' = "blpop"
    /\ it' = it
    /\ frame' = NoFrame

\* lines 591-596: blpop, json.loads, data["url"], data["uuid"].  A blpop that
\* times out on an empty queue starts the loop again and changes nothing.
Dequeue ==
    /\ pc = "blpop"
    /\ frame' = NoFrame
    /\ \/ /\ pc' = "except"
          /\ it' = [NewIteration(NoItem) EXCEPT !.failed_at = "dequeue"]
          /\ UNCHANGED <<queue, locals>>
       \/ /\ queue # <<>>
          /\ LET item == Head(queue)
             IN  /\ queue' = Tail(queue)
                 /\ it' = [NewIteration(item) EXCEPT
                             !.failed_at = IF item.kind = "ok" THEN "none" ELSE "dequeue"]
                 /\ CASE item.kind = "ok" ->
                           /\ locals' = Bind(Bind(locals, "url", item.url),
                                             "task_uuid", item.uuid)
                           /\ pc' = "set_processing"
                      [] item.kind = "nouuid" ->
                           /\ locals' = Bind(locals, "url", item.url)
                           /\ pc' = "except"
                      [] OTHER ->
                           /\ locals' = locals
                           /\ pc' = "except"
    /\ UNCHANGED <<status, url_task, cache, published, statusLog, indexVars,
                   producerVars, chatVars, ingestVars, pollerVars>>

\* line 601
SetProcessing ==
    /\ pc = "set_processing"
    /\ \/ /\ SetStatus(locals.task_uuid, "processing")
          /\ pc' = "get_mapping"
          /\ it' = [it EXCEPT !.processing_written = TRUE]
          /\ frame' = frame
       \/ /\ Raise("status")
          /\ UNCHANGED <<status, statusLog>>
    /\ UNCHANGED <<queue, url_task, cache, published, locals, indexVars,
                   producerVars, chatVars, ingestVars, pollerVars>>

\* lines 604-607: r.get of the mapping row and json.loads of it
GetMapping ==
    /\ pc = "get_mapping"
    /\ \/ CASE url_task[locals.url].kind = "none" ->
                   /\ pc' = "scrape"
                   /\ it' = it
                   /\ frame' = [frame EXCEPT !.url_task_data = url_task[locals.url]]
            [] url_task[locals.url].kind = "garbage" -> Raise("mapping")
            [] OTHER ->
                   /\ pc' = "set_mapping_processing"
                   /\ it' = it
                   /\ frame' = [frame EXCEPT !.url_task_data = url_task[locals.url]]
       \/ Raise("mapping")
    /\ UNCHANGED <<storeVars, locals, indexVars, producerVars, chatVars, ingestVars, pollerVars>>

\* the row data with its status set: json.loads, url_task["status"] = ..,
\* json.dumps
WithStatus(data, value) == [data EXCEPT !.status = value]

\* lines 608-609: the row read at line 605, with status "processing"
SetMappingProcessing ==
    /\ pc = "set_mapping_processing"
    /\ \/ /\ url_task' = [url_task EXCEPT ![locals.url] =
                             WithStatus(frame.url_task_data, "processing")]
          /\ Goto("scrape")
       \/ /\ Raise("mapping")
          /\ url_task' = url_task
    /\ UNCHANGED <<queue, status, cache, published, statusLog, locals,
                   indexVars, producerVars, chatVars, ingestVars, pollerVars>>

\* line 612, utils.scrape_url: ValueError for an invalid url and for a
\* response that is not 200, the page's text otherwise
scrape_url(url, http_status, page) ==
    IF ~is_valid_url(url) THEN [raised |-> TRUE, text |-> <<>>]
    ELSE IF http_status # 200 THEN [raised |-> TRUE, text |-> <<>>]
    ELSE [raised |-> FALSE, text |-> page]

Scrape ==
    /\ pc = "scrape"
    /\ \E http_status \in {200, 404}, page \in Texts :
          LET r == scrape_url(locals.url, http_status, page)
          IN  IF r.raised
              THEN Raise("scrape")
              ELSE /\ pc' = "pa_embed"
                   /\ it' = it
                   /\ frame' = [frame EXCEPT !.text = r.text]
    /\ UNCHANGED <<storeVars, locals, indexVars, producerVars, chatVars, ingestVars, pollerVars>>

(***************************************************************************)
(* ModelInterface.process_article, main.py:521-550, called at line 613.    *)
(***************************************************************************)
\* the handler of lines 528-532 around the call of embed_text: it logs
EmbedCallExceptReraises == FALSE

\* a variant of the handler of lines 544-550 that raises again
ProcessArticleExceptReraisesAgain == TRUE

\* the handler of lines 544-550: it logs and returns DefaultResult
ProcessArticleExceptReraises == FALSE

\* an exception reaches the except clause of line 544; itNew is the
\* iteration's history so far
ProcessArticleExcept(itNew) ==
    IF ProcessArticleExceptReraises
    THEN /\ pc' = "except"
         /\ it' = [itNew EXCEPT !.failed_at = "process_article"]
         /\ frame' = NoFrame
    ELSE /\ pc' = "set_cache"
         /\ it' = itNew
         /\ frame' = [frame EXCEPT !.result = DefaultResult]

\* lines 525-532: embed_text(article_text, uuid)
ProcessEmbed ==
    /\ pc = "pa_embed"
    /\ \E chunking \in {"ok", "raise"}, add \in {"ok", "raise"} :
       \E responses \in
              [1..Len(chunk_text(frame.text, EmbedChunkSize)) -> EmbedResponses] :
          LET r == embed_text(frame.text, locals.task_uuid, chunking, responses, add)
              itNew == [it EXCEPT !.embed_done = TRUE, !.embed_caught = r.caught,
                                  !.embed_raised = r.raised, !.add_calls = r.calls]
          IN  /\ collection' =
                     collection \cup UNION {BatchDocs(r.stored[k]) : k \in 1..Len(r.stored)}
              /\ IF r.raised /\ EmbedCallExceptReraises
                 THEN ProcessArticleExcept(itNew)
                 ELSE pc' = "pa_summary" /\ it' = itNew /\ frame' = frame
    /\ UNCHANGED <<storeVars, locals, producerVars, chatVars, ingestVars, pollerVars>>

\* line 537: generate_text(SUMMARY_INSTRUCTION, article_text)
Summary ==
    /\ pc = "pa_summary"
    /\ \/ /\ pc' = "pa_sentiment"
          /\ it' = [it EXCEPT !.summary_called = TRUE]
          /\ frame' = [frame EXCEPT !.summary = ModelSummary]
       \/ ProcessArticleExcept([it EXCEPT !.summary_called = TRUE,
                                          !.model_raised = TRUE])
    /\ UNCHANGED <<storeVars, locals, indexVars, producerVars, chatVars, ingestVars, pollerVars>>

\* lines 538-543: generate_text(SENTIMENT_INSTRUCTION, summary) and the return
Sentiment ==
    /\ pc = "pa_sentiment"
    /\ \/ /\ pc' = "set_cache"
          /\ it' = [it EXCEPT !.sentiment_called = TRUE]
          /\ frame' = [frame EXCEPT !.result = [summary |-> frame.summary,
                                                sentiment |-> ModelSentiment]]
       \/ ProcessArticleExcept([it EXCEPT !.sentiment_called = TRUE,
                                          !.model_raised = TRUE])
    /\ UNCHANGED <<storeVars, locals, indexVars, producerVars, chatVars, ingestVars, pollerVars>>

(***************************************************************************)
(* redis_worker, the success path after process_article.                   *)
(***************************************************************************)
\* lines 616-622: the result that is cached and published
ResultEntry(url, result) ==
    CacheEntry(TRUE, url, result.summary, result.sentiment, <<>>)

\* a variant of lines 625-629 that writes the result under another key than
\* cache:{url}
SetCacheWrongKey ==
    /\ pc = "set_cache"
    /\ \/ /\ cache' = cache
          /\ pc' = "set_done"
          /\ it' = [it EXCEPT !.cache_written = TRUE]
          /\ frame' = frame
       \/ /\ Raise("cache")
          /\ cache' = cache
    /\ UNCHANGED <<queue, status, url_task, published, statusLog, locals,
                   indexVars, producerVars, chatVars, ingestVars, pollerVars>>

\* lines 625-629: r.set(cache_key, result_json)
SetCache ==
    /\ pc = "set_cache"
    /\ \/ /\ cache' = [cache EXCEPT ![locals.url] = ResultEntry(locals.url, frame.result)]
          /\ pc' = "set_done"
          /\ it' = [it EXCEPT !.cache_written = TRUE]
          /\ frame' = frame
       \/ /\ Raise("cache")
          /\ cache' = cache
    /\ UNCHANGED <<queue, status, url_task, published, statusLog, locals,
                   indexVars, producerVars, chatVars, ingestVars, pollerVars>>

\* a variant of line 633 that leaves the write of "done" for later
SetDoneDeferred ==
    /\ pc = "set_done"
    /\ \/ /\ pc' = IF frame.url_task_data.kind # "none"
                   THEN "set_mapping_done" ELSE "publish"
          /\ it' = it
          /\ frame' = frame
       \/ Raise("status")
    /\ UNCHANGED <<queue, status, statusLog, url_task, cache, published, locals,
                   indexVars, producerVars, chatVars, ingestVars, pollerVars>>

\* line 633, and the test of line 636
SetDone ==
    /\ pc = "set_done"
    /\ \/ /\ SetStatus(locals.task_uuid, "done")
          /\ pc' = IF frame.url_task_data.kind # "none"
                   THEN "set_mapping_done" ELSE "publish"
          /\ it' = [it EXCEPT !.done_written = TRUE]
          /\ frame' = frame
       \/ /\ Raise("status")
          /\ UNCHANGED <<status, statusLog>>
    /\ UNCHANGED <<queue, url_task, cache, published, locals, indexVars,
                   producerVars, chatVars, ingestVars, pollerVars>>

\* lines 637-639: the row read at line 605, with status "done"
SetMappingDone ==
    /\ pc = "set_mapping_done"
    /\ \/ /\ url_task' = [url_task EXCEPT ![locals.url] =
                             WithStatus(frame.url_task_data, "done")]
          /\ Goto("publish")
       \/ /\ Raise("mapping")
          /\ url_task' = url_task
    /\ UNCHANGED <<queue, status, cache, published, statusLog, locals,
                   indexVars, producerVars, chatVars, ingestVars, pollerVars>>

\* lines 642-645
Publish ==
    /\ pc = "publish"
    /\ \/ /\ published' = Append(published,
                 [uuid |-> locals.task_uuid, url |-> locals.url,
                  result |-> ResultEntry(locals.url, frame.result)])
          /\ pc' = "blpop"
          /\ it' = [it EXCEPT !.pubs = @ + 1]
          /\ frame' = NoFrame
       \/ /\ Raise("publish")
          /\ published' = published
    /\ UNCHANGED <<queue, status, url_task, cache, statusLog, locals,
                   indexVars, producerVars, chatVars, ingestVars, pollerVars>>

(***************************************************************************)
(* redis_worker, the except clause of lines 649-662.                       *)
(***************************************************************************)
\* a variant of lines 652-653 that mirrors the failure into the mapping row
\* and leaves status:{uuid} alone
ExceptSkipsStatus ==
    /\ pc = "except"
    /\ IF Bound(locals, "task_uuid")
       THEN Goto("except_get_mapping")
       ELSE EndIteration
    /\ UNCHANGED <<queue, status, statusLog, url_task, cache, published, locals,
                   indexVars, producerVars, chatVars, ingestVars, pollerVars>>

\* lines 652-653: "task_uuid" in locals() and r.set(status, "failed").
\* url is bound whenever task_uuid is (line 595 precedes line 596).
Except ==
    /\ pc = "except"
    /\ IF Bound(locals, "task_uuid")
       THEN \/ /\ SetStatus(locals.task_uuid, "failed")
               /\ Goto("except_get_mapping")
            \/ /\ Crash("status")
               /\ UNCHANGED <<status, statusLog>>
       ELSE /\ EndIteration
            /\ UNCHANGED <<status, statusLog>>
    /\ UNCHANGED <<queue, url_task, cache, published, locals, indexVars,
                   producerVars, chatVars, ingestVars, pollerVars>>

\* lines 655-659: r.get of the mapping row and json.loads of it
ExceptGetMapping ==
    /\ pc = "except_get_mapping"
    /\ \/ CASE url_task[locals.url].kind = "none" -> EndIteration
            [] url_task[locals.url].kind = "garbage" -> Crash("mapping")
            [] OTHER ->
                   /\ pc' = "except_set_mapping"
                   /\ it' = it
                   /\ frame' = [frame EXCEPT !.url_task_data = url_task[locals.url]]
       \/ Crash("mapping")
    /\ UNCHANGED <<storeVars, locals, indexVars, producerVars, chatVars, ingestVars, pollerVars>>

\* lines 660-662: the row just read, with status "failed", and the sleep
ExceptSetMapping ==
    /\ pc = "except_set_mapping"
    /\ \/ /\ url_task' = [url_task EXCEPT ![locals.url] =
                             WithStatus(frame.url_task_data, "failed")]
          /\ EndIteration
       \/ /\ Crash("mapping")
          /\ url_task' = url_task
    /\ UNCHANGED <<queue, status, cache, published, statusLog, locals,
                   indexVars, producerVars, chatVars, ingestVars, pollerVars>>

(***************************************************************************)
(* The consumer and its producer.                                          *)
(***************************************************************************)
(***************************************************************************)
(* The chat path: POST /chat runs chat_endpoint, a plain def, so FastAPI   *)
(* runs each request on a thread of its pool and requests overlap.  All of *)
(* them work on LLM, the one ModelInterface of the process, and its memory.*)
(***************************************************************************)
Requests == 1..MaxChats

\* the content of a turn: the task whose chat wrote it (0 for the system
\* prompt), the retrieved context wrapped around the message ("" when the
\* message went in raw) and the message or answer itself
Content(task, context, text) == [task |-> task, context |-> context, text |-> text]

Turn(role, content) == [role |-> role, content |-> content]

SystemTurn == Turn("system", Content(0, <<>>, "You are a helpful assistant"))

\* __init__, main.py:118-123: self.memory starts as the system turn alone
InitialMemory == <<SystemTurn>>

\* a variant of reset_memory that binds memory to an empty list
reset_memory_to_nothing == <<>>

\* reset_memory, main.py:511-519: memory is bound to a new one-turn list
reset_memory == <<SystemTurn>>

\* a transcript the backend may hold for a task before the requests start
History(t) == <<Turn("user", Content(t, <<>>, "earlier question")),
                Turn("assistant", Content(t, <<>>, "earlier answer"))>>

\* GET /tasks answers with every task and its conversation
BackendTasks(uuid) == conv[uuid]

\* POST /conversation/update replaces the stored conversation of the task
BackendUpdate(uuid, entries) == [conv EXCEPT ![uuid] = entries]

\* chunk i of the n chunks of task t as embed_text stores it, main.py:224-268
IndexedDoc(t, i, n) ==
    [id |-> chunk_id(t, i), embedding |-> <<7>>,
     document |-> Rep("d", MinChunkLen) \o <<ToString(t), ToString(i)>>,
     metadata |-> [uuid |-> t, chunk_index |-> i, total_chunks |-> n]]

\* an index that holds one chunk of every task
IndexedDocs == {IndexedDoc(t, 0, 1) : t \in TaskIds}

\* an index that holds more chunks of task 1 than a context takes, and one
\* chunk of every other task
LargerIndex ==
    {IndexedDoc(1, i, TopChunks + 1) : i \in 0..TopChunks}
        \cup {IndexedDoc(t, 0, 1) : t \in TaskIds \ {1}}

\* the bodies of POST /chat: complete ones, and two that line 698 rejects
ChatBodies ==
    {[uuid |-> t, message |-> "question"] : t \in TaskIds}
        \cup {[uuid |-> 0, message |-> "question"], [uuid |-> 1, message |-> ""]}

NoRequest == [pc |-> "idle", uuid |-> 0, message |-> "", entries |-> <<>>,
              i |-> 0, context |-> <<>>, answer |-> "", sent |-> <<>>,
              payload |-> <<>>, posted |-> FALSE, result |-> "none",
              retrieval |-> "none", retrieve_raised |-> FALSE,
              loaded |-> FALSE, before |-> <<>>]

ChatGoto(r, label) == [chat EXCEPT ![r].pc = label]

\* every sequence of n distinct elements of S
RECURSIVE Orderings(_, _)
Orderings(S, n) ==
    IF n = 0 \/ S = {} THEN {<<>>}
    ELSE UNION {{<<d>> \o rest : rest \in Orderings(S \ {d}, n - 1)} : d \in S}

Min(a, b) == IF a < b THEN a ELSE b

\* what collection.query(n_results=10) can answer: it raises, it answers
\* with something that has no "documents", or it ranks the nearest
\* documents of the whole collection, of every task
QueryResult(kind, hits) == [kind |-> kind, hits |-> hits]

QueryResults ==
    {QueryResult("raise", <<>>), QueryResult("malformed", <<>>)}
        \cup {QueryResult("ok", h) :
                h \in Orderings(collection, Min(NResults, Cardinality(collection)))}

\* a variant of the filter that keeps the documents of every task
KeepEveryHit(hits, uuid) == [k \in 1..Len(hits) |-> hits[k].document]

\* main.py:353-359: the documents whose metadata holds the uuid, in order
RECURSIVE FilterByUuid(_, _)
FilterByUuid(hits, uuid) ==
    IF hits = <<>> THEN <<>>
    ELSE IF Head(hits).metadata.uuid = uuid
         THEN <<Head(hits).document>> \o FilterByUuid(Tail(hits), uuid)
         ELSE FilterByUuid(Tail(hits), uuid)

Returned(context) == [exc |-> FALSE, context |-> context]

\* the body of the try of retrieve_text, main.py:308-379; "" is the empty
\* sequence of characters.  exc: an exception left the body, which are the
\* IndexError of line 331 and a result without "documents" at line 352.
retrieve_text_body(uuid, prompt, response, query) ==
    LET flat     == Flatten(response.nest, response.vec)
        filtered == FilterByUuid(query.hits, uuid)
        relevant == SubSeq(filtered, 1, Min(TopChunks, Len(filtered)))
    IN  IF ~HasUuid(uuid) THEN Returned(<<>>)
        ELSE IF prompt = "" THEN Returned(<<>>)
        ELSE IF response.kind \in {"raise", "malformed"} THEN Returned(<<>>)
        ELSE IF flat.error THEN [exc |-> TRUE, context |-> <<>>]
        ELSE IF query.kind = "raise" THEN Returned(<<>>)
        ELSE IF query.kind = "malformed" THEN [exc |-> TRUE, context |-> <<>>]
        ELSE IF query.hits = <<>> THEN Returned(<<>>)
        ELSE IF relevant = <<>> THEN Returned(<<>>)
        ELSE Returned(Join(relevant))

\* a variant of the handler of lines 380-386 that raises again
RetrieveExceptReraisesAgain == TRUE

\* the handler of the try, main.py:380-386: it logs and returns ""
RetrieveExceptReraises == FALSE

\* retrieve_text as its caller sees it
retrieve_text(uuid, prompt, response, query) ==
    LET body == retrieve_text_body(uuid, prompt, response, query)
    IN  [raised |-> body.exc /\ RetrieveExceptReraises,
         context |-> IF body.exc THEN <<>> ELSE body.context]

\* how a retrieval went: the embedding call or the query failed, or the
\* query named no document of the task, or it named some
RetrievalKind(uuid, response, query) ==
    IF response.kind # "ok" \/ Flatten(response.nest, response.vec).error
       \/ query.kind # "ok"
    THEN "failed"
    ELSE IF \E k \in 1..Len(query.hits) : query.hits[k].metadata.uuid = uuid
         THEN "hits" ELSE "no hits"

\* chat_endpoint, main.py:692-699: the body is read and checked; before is
\* (history) what the backend holds for the task as the request arrives
ChatStart(r) ==
    /\ chat[r].pc = "idle"
    /\ \E body \in ChatBodies :
         IF ~HasUuid(body.uuid) \/ body.message = ""
         THEN chat' = [chat EXCEPT ![r].pc = "done", ![r].result = "missing"]
         ELSE chat' = [chat EXCEPT ![r].pc = "load_get", ![r].uuid = body.uuid,
                                   ![r].message = body.message,
                                   ![r].before = BackendTasks(body.uuid)]
    /\ UNCHANGED <<memory, conv, indexVars, consumerVars, ingestVars, pollerVars>>

\* load_conversation_from_backend, main.py:476-487: GET /tasks.  It raises
\* or answers other than 200 ("fail"), or it answers with the tasks; the
\* conversation is loaded when the task is there with a non-empty one
LoadGet(r) ==
    /\ chat[r].pc = "load_get"
    /\ \E response \in {"fail", "ok"} :
         IF response = "ok" /\ BackendTasks(chat[r].uuid) # <<>>
         THEN chat' = [chat EXCEPT ![r].pc = "load_reset",
                                   ![r].entries = BackendTasks(chat[r].uuid)]
         ELSE chat' = ChatGoto(r, "reset")
    /\ UNCHANGED <<memory, conv, indexVars, consumerVars, ingestVars, pollerVars>>

\* main.py:488, self.reset_memory() before the stored turns are added
LoadReset(r) ==
    /\ chat[r].pc = "load_reset"
    /\ memory' = reset_memory
    /\ chat' = [chat EXCEPT ![r].pc = "load_append", ![r].i = 1]
    /\ UNCHANGED <<conv, indexVars, consumerVars, ingestVars, pollerVars>>

\* main.py:490-500 and 505-509: one pass of the loop over the stored
\* entries, each appended to self.memory as it is then bound; an entry that
\* is no JSON object raises, the except returns False; after the last entry
\* the function returns True
LoadAppend(r) ==
    /\ chat[r].pc = "load_append"
    /\ \E entry \in {"object", "other"} :
         IF entry = "other"
         THEN /\ chat' = [chat EXCEPT ![r].pc = "reset", ![r].entries = <<>>,
                                      ![r].i = 0]
              /\ UNCHANGED memory
         ELSE /\ memory' = Append(memory, chat[r].entries[chat[r].i])
              /\ chat' = IF chat[r].i = Len(chat[r].entries)
                         THEN [chat EXCEPT ![r].pc = "retrieve", ![r].i = 0,
                                           ![r].loaded = TRUE]
                         ELSE [chat EXCEPT ![r].i = @ + 1]
    /\ UNCHANGED <<conv, indexVars, consumerVars, ingestVars, pollerVars>>

\* chat_endpoint, main.py:702-704: nothing was loaded, LLM.reset_memory()
ResetMemory(r) ==
    /\ chat[r].pc = "reset"
    /\ memory' = reset_memory
    /\ chat' = ChatGoto(r, "retrieve")
    /\ UNCHANGED <<conv, indexVars, consumerVars, ingestVars, pollerVars>>

\* chat, main.py:392-405: the context of the message is retrieved; the
\* except of line 400 would turn a raise of retrieve_text into no context
Retrieve(r) ==
    /\ chat[r].pc = "retrieve"
    /\ \E response \in EmbedResponses, query \in QueryResults :
         LET got == retrieve_text(chat[r].uuid, chat[r].message, response, query)
         IN  chat' = [chat EXCEPT
                        ![r].pc = "append_user",
                        ![r].context = IF got.raised THEN <<>> ELSE got.context,
                        ![r].retrieval = RetrievalKind(chat[r].uuid, response, query),
                        ![r].retrieve_raised = got.raised]
    /\ UNCHANGED <<memory, conv, indexVars, consumerVars, ingestVars, pollerVars>>

\* chat, main.py:407-418: the prompt, the raw message when there is no
\* context, is appended as a user turn
AppendUser(r) ==
    /\ chat[r].pc = "append_user"
    /\ memory' = Append(memory, Turn("user", Content(chat[r].uuid, chat[r].context,
                                                     chat[r].message)))
    /\ chat' = ChatGoto(r, "model")
    /\ UNCHANGED <<conv, indexVars, consumerVars, ingestVars, pollerVars>>

\* chat, main.py:420-421, and the except of chat_endpoint, 711-713: the
\* model is called with self.memory as it is then; a raise ends the request
ModelCall(r) ==
    /\ chat[r].pc = "model"
    /\ \E outcome \in {"ok", "raise"} :
         chat' = [chat EXCEPT
                    ![r].sent = memory,
                    ![r].pc = IF outcome = "ok" THEN "append_assistant" ELSE "done",
                    ![r].answer = IF outcome = "ok" THEN "answer" ELSE "",
                    ![r].result = IF outcome = "ok" THEN "none" ELSE "error"]
    /\ UNCHANGED <<memory, conv, indexVars, consumerVars, ingestVars, pollerVars>>

\* chat, main.py:423-428
AppendAssistant(r) ==
    /\ chat[r].pc = "append_assistant"
    /\ memory' = Append(memory, Turn("assistant", Content(chat[r].uuid, <<>>,
                                                          chat[r].answer)))
    /\ chat' = ChatGoto(r, "update")
    /\ UNCHANGED <<conv, indexVars, consumerVars, ingestVars, pollerVars>>

\* the turns of self.memory that are not system turns, main.py:445-450
RECURSIVE conversation_entries(_)
conversation_entries(mem) ==
    IF mem = <<>> THEN <<>>
    ELSE IF Head(mem).role # "system"
         THEN <<Head(mem)>> \o conversation_entries(Tail(mem))
         ELSE conversation_entries(Tail(mem))

\* chat, main.py:433-439, update_conversation_in_backend, 441-472, and the
\* return of chat_endpoint, 709: the turns are posted; the backend stores
\* them when it answers 200, a raise or another answer is logged
UpdateConversation(r) ==
    /\ chat[r].pc = "update"
    /\ \E response \in {"ok", "fail"} :
         /\ conv' = IF response = "ok"
                    THEN BackendUpdate(chat[r].uuid, conversation_entries(memory))
                    ELSE conv
         /\ chat' = [chat EXCEPT ![r].pc = "done", ![r].result = "success",
                                 ![r].payload = conversation_entries(memory),
                                 ![r].posted = (response = "ok")]
    /\ UNCHANGED <<memory, indexVars, consumerVars, ingestVars, pollerVars>>

(***************************************************************************)
(* The readiness poller, model_readiness_checker, the thread that lifespan *)
(* starts once, and GET /is-model-loaded, which reads the flag.            *)
(***************************************************************************)
LLM_MODEL_NAME == "llama3.1:8b"
EMBEDDING_MODEL_NAME == "nomic-embed-text:latest"

\* an answer of GET /api/ps: the call raises, or it answers with a status
\* code and the names of the loaded models
PsAnswer(kind, models) == [kind |-> kind, models |-> models]

PsAnswers ==
    {PsAnswer("raise", {}), PsAnswer("500", {}), PsAnswer("200", {}),
     PsAnswer("200", {EMBEDDING_MODEL_NAME}),
     PsAnswer("200", {LLM_MODEL_NAME, EMBEDDING_MODEL_NAME})}

\* check_models_ready, main.py:37-59
check_models_ready(answer) ==
    IF answer.kind = "raise" THEN FALSE
    ELSE IF answer.kind = "200"
         THEN \A model \in {LLM_MODEL_NAME} : model \in answer.models
         ELSE FALSE

\* main.py:33, models_ready = False
PollerStartsUnready == FALSE

NoPoller == [pc |-> "first_check", observed |-> FALSE, slept |-> FALSE,
             notified |-> <<>>, ready_at_notify |-> <<>>]

NoIsLoaded == [pc |-> "idle", current_status |-> FALSE, ready |-> FALSE]

PollerInit ==
    /\ models_ready = PollerStartsUnready
    /\ models_ready_lock = "free"
    /\ poller = NoPoller
    /\ ollama = PsAnswer("raise", {})
    /\ is_loaded = NoIsLoaded

\* the model service loads and unloads models, goes away and comes back
OllamaChanges ==
    /\ \E answer \in PsAnswers \ {ollama} : ollama' = answer
    /\ UNCHANGED <<models_ready, models_ready_lock, poller, is_loaded>>
    /\ UNCHANGED <<consumerVars, indexVars, chatVars, ingestVars>>

\* main.py:80, the check before the loop
FirstCheck ==
    /\ poller.pc = "first_check"
    /\ poller' = IF check_models_ready(ollama)
                 THEN [poller EXCEPT !.pc = "acquire", !.observed = TRUE]
                 ELSE [poller EXCEPT !.pc = "loop_test"]
    /\ UNCHANGED <<models_ready, models_ready_lock, ollama, is_loaded>>
    /\ UNCHANGED <<consumerVars, indexVars, chatVars, ingestVars>>

\* main.py:81 and 95, with models_ready_lock: the lock is taken
PollerAcquire ==
    /\ poller.pc = "acquire"
    /\ models_ready_lock = "free"
    /\ models_ready_lock' = "poller"
    /\ poller' = [poller EXCEPT !.pc = "set"]
    /\ UNCHANGED <<models_ready, ollama, is_loaded>>
    /\ UNCHANGED <<consumerVars, indexVars, chatVars, ingestVars>>

\* main.py:82 and 96, models_ready = True, and the lock is given back
SetReady ==
    /\ poller.pc = "set"
    /\ models_ready' = TRUE
    /\ models_ready_lock' = "free"
    /\ poller' = [poller EXCEPT !.pc = "notify"]
    /\ UNCHANGED <<ollama, is_loaded>>
    /\ UNCHANGED <<consumerVars, indexVars, chatVars, ingestVars>>

\* main.py:84-85 and 99-100 with notify_backend_models_ready, 62-72: the
\* one POST /inform-model-loaded; whatever it answers, and when it raises,
\* the function returns, and the poller returns or leaves the loop
Notify ==
    /\ poller.pc = "notify"
    /\ \E outcome \in {"200", "500", "raise"} :
         poller' = [poller EXCEPT
                      !.pc = "finished",
                      !.notified = Append(@, outcome),
                      !.ready_at_notify = Append(@, models_ready)]
    /\ UNCHANGED <<models_ready, models_ready_lock, ollama, is_loaded>>
    /\ UNCHANGED <<consumerVars, indexVars, chatVars, ingestVars>>

\* main.py:93, while not models_ready
LoopTest ==
    /\ poller.pc = "loop_test"
    /\ poller' = [poller EXCEPT !.pc = IF ~models_ready THEN "check" ELSE "finished"]
    /\ UNCHANGED <<models_ready, models_ready_lock, ollama, is_loaded>>
    /\ UNCHANGED <<consumerVars, indexVars, chatVars, ingestVars>>

\* a variant of the check inside the loop that notifies before it sets the flag
LoopCheckNotifiesFirst ==
    /\ poller.pc = "check"
    /\ poller' = IF check_models_ready(ollama)
                 THEN [poller EXCEPT !.pc = "notify", !.observed = TRUE]
                 ELSE [poller EXCEPT !.pc = "sleep"]
    /\ UNCHANGED <<models_ready, models_ready_lock, ollama, is_loaded>>
    /\ UNCHANGED <<consumerVars, indexVars, chatVars, ingestVars>>

\* main.py:94, the check inside the loop
LoopCheck ==
    /\ poller.pc = "check"
    /\ poller' = IF check_models_ready(ollama)
                 THEN [poller EXCEPT !.pc = "acquire", !.observed = TRUE]
                 ELSE [poller EXCEPT !.pc = "sleep"]
    /\ UNCHANGED <<models_ready, models_ready_lock, ollama, is_loaded>>
    /\ UNCHANGED <<consumerVars, indexVars, chatVars, ingestVars>>

\* main.py:102-106, time.sleep(interval)
Sleep ==
    /\ poller.pc = "sleep"
    /\ poller' = [poller EXCEPT !.pc = "loop_test", !.slept = TRUE]
    /\ UNCHANGED <<models_ready, models_ready_lock, ollama, is_loaded>>
    /\ UNCHANGED <<consumerVars, indexVars, chatVars, ingestVars>>

\* is_model_loaded, main.py:670-675: a request arrives and takes the lock
IsLoadedAcquire ==
    /\ is_loaded.pc \in {"idle", "done"}
    /\ models_ready_lock = "free"
    /\ models_ready_lock' = "request"
    /\ is_loaded' = [NoIsLoaded EXCEPT !.pc = "read"]
    /\ UNCHANGED <<models_ready, poller, ollama>>
    /\ UNCHANGED <<consumerVars, indexVars, chatVars, ingestVars>>

\* main.py:676, current_status = models_ready, and the lock is given back
IsLoadedRead ==
    /\ is_loaded.pc = "read"
    /\ models_ready_lock' = "free"
    /\ is_loaded' = [is_loaded EXCEPT !.pc = "redis", !.current_status = models_ready]
    /\ UNCHANGED <<models_ready, poller, ollama>>
    /\ UNCHANGED <<consumerVars, indexVars, chatVars, ingestVars>>

\* main.py:678-689: the key models:ready, which nothing here writes, is
\* read from redis ("true", another value or none, or the read raises)
IsLoadedReturn ==
    /\ is_loaded.pc = "redis"
    /\ \E redis_flag \in {"true", "none", "raise"} :
         is_loaded' = [is_loaded EXCEPT
                         !.pc = "done",
                         !.ready = is_loaded.current_status \/ redis_flag = "true"]
    /\ UNCHANGED <<models_ready, models_ready_lock, poller, ollama>>
    /\ UNCHANGED <<consumerVars, indexVars, chatVars, ingestVars>>

(***************************************************************************)
(* embed_text on articles of more than one chunk.  chunk_text cuts at      *)
(* max_chunk_size=1500, 1.3 a word: every chunk but the last holds         *)
(* FullChunkWords words, so the chunk lists of line 161 are drawn here     *)
(* as they come out for articles of one-letter words that end in one word  *)
(* of some length.                                                         *)
(***************************************************************************)
\* the words of a chunk that chunk_text closes: one more would pass the size
FullChunkWords == EmbedChunkSize \div WordWeight

\* FullChunkWords one-letter words joined by single spaces
FullChunk(c) ==
    [k \in 1..(2 * FullChunkWords - 1) |-> IF k % 2 = 1 THEN c ELSE " "]

\* the last chunk of an article: a chunk that is full, or one word that is
\* shorter than MinChunkLen, or just as long
LastChunks(c) ==
    {FullChunk(c), <<c>>, Rep(c, MinChunkLen - 1), Rep(c, MinChunkLen)}

\* what chunk_text returns for such articles of n chunks; the words of the
\* k-th chunk are the digit k
ChunkLists(n) ==
    {[k \in 1..n |-> IF k < n THEN FullChunk(ToString(k)) ELSE last] :
        last \in LastChunks(ToString(n))}

NoIngest == [done |-> FALSE, chunks |-> <<>>, uuid |-> 0, responses |-> <<>>,
             add |-> "ok", batch |-> EmptyBatch, calls |-> <<>>]

\* embed_text, main.py:163-298, on the chunks of one article; the batch is
\* all_ids, all_embeddings, all_documents and all_metadatas after the loop
IngestChunks ==
    /\ ~ingest.done
    /\ \E n \in 1..MaxChunks, uuid \in TaskIds, add \in {"ok", "raise"} :
       \E chunks \in ChunkLists(n), responses \in [1..n -> EmbedResponses] :
          LET r == embed_chunks(chunks, uuid, responses, add)
          IN  /\ ingest' = [done |-> TRUE, chunks |-> chunks, uuid |-> uuid,
                            responses |-> responses, add |-> add,
                            batch |-> EmbedChunks(EmptyBatch, chunks, 1, uuid,
                                                  responses),
                            calls |-> r.calls]
              /\ collection' =
                     collection \cup UNION {BatchDocs(r.stored[k]) : k \in 1..Len(r.stored)}
    /\ UNCHANGED <<retrieval, chunk_call, consumerVars, chatVars, pollerVars>>

(***************************************************************************)
(* retrieve_text on its own, over an index of several tasks.               *)
(***************************************************************************)
NoRetrieval == [done |-> FALSE, uuid |-> 0, prompt |-> "",
                response |-> EmbedResponse("raise", 0, <<>>),
                query |-> QueryResult("raise", <<>>),
                raised |-> FALSE, context |-> <<>>]

\* retrieve_text(uuid, prompt), main.py:306-386, with what the embedding
\* call and the index answer
RetrieveText ==
    /\ ~retrieval.done
    /\ \E uuid \in TaskIds \cup {0}, prompt \in {"", "question"},
          response \in EmbedResponses, query \in QueryResults :
          LET got == retrieve_text(uuid, prompt, response, query)
          IN  retrieval' = [done |-> TRUE, uuid |-> uuid, prompt |-> prompt,
                            response |-> response, query |-> query,
                            raised |-> got.raised, context |-> got.context]
    /\ UNCHANGED <<ingest, chunk_call, indexVars, consumerVars, chatVars, pollerVars>>

(***************************************************************************)
(* chunk_text on its own, on any short text and any small max_chunk_size.  *)
(***************************************************************************)
\* the characters of the texts: two letters and two kinds of whitespace
Chars == {"a", "b", " ", "\n"}

ChunkTexts == UNION {[1..n -> Chars] : n \in 0..MaxTextLen}

\* max_chunk_size in tenths; below WordWeight no word fits
ChunkSizes == (0 - 1)..MaxChunkSize

NoChunking == [pc |-> "idle", text |-> <<>>, max_chunk_size |-> 0,
               chunks |-> <<>>]

\* the calls chunk_text(text, max_chunk_size) that can be made
ChunkCalls ==
    {[pc |-> "called", text |-> text, max_chunk_size |-> m, chunks |-> <<>>] :
        text \in ChunkTexts, m \in ChunkSizes}

\* utils.py:7-30, the call returns its chunks
ChunkText ==
    /\ chunk_call.pc = "called"
    /\ chunk_call' = [chunk_call EXCEPT
                       !.pc = "returned",
                       !.chunks = chunk_text(chunk_call.text, chunk_call.max_chunk_size)]
    /\ UNCHANGED <<ingest, retrieval, indexVars, consumerVars, chatVars, pollerVars>>

vars == <<queue, status, url_task, cache, published, collection, nextId, pc,
          locals, frame, statusLog, taskUrl, it, memory, conv, chat, ingest,
          retrieval, chunk_call, models_ready, models_ready_lock, poller, ollama, is_loaded>>

\* redis_worker has not dequeued anything yet
ConsumerInit ==
    /\ queue = <<>>
    /\ status = [t \in TaskIds |-> "none"]
    /\ url_task = [u \in Urls |-> NoRow]
    /\ cache = [u \in Urls |-> NoCache]
    /\ published = <<>>
    /\ nextId = 1
    /\ pc = "blpop"
    /\ locals = NoLocals
    /\ frame = NoFrame
    /\ statusLog = [t \in TaskIds |-> <<>>]
    /\ taskUrl = [t \in TaskIds |-> Url("", "")]
    /\ it = NewIteration(NoItem)

\* no /chat request has arrived, LLM.memory is as __init__ left it
NoChats ==
    /\ memory = InitialMemory
    /\ chat = [r \in Requests |-> NoRequest]

Init ==
    /\ ConsumerInit
    /\ collection = {}
    /\ NoChats
    /\ conv = [t \in TaskIds |-> <<>>]
    /\ ingest = NoIngest
    /\ retrieval = NoRetrieval
    /\ chunk_call = NoChunking
    /\ PollerInit

Next ==
    \/ Producer
    \/ Dequeue
    \/ SetProcessing
    \/ GetMapping
    \/ SetMappingProcessing
    \/ Scrape
    \/ ProcessEmbed
    \/ Summary
    \/ Sentiment
    \/ SetCache
    \/ SetDone
    \/ SetMappingDone
    \/ Publish
    \/ Except
    \/ ExceptGetMapping
    \/ ExceptSetMapping

Spec == Init /\ [][Next]_vars

\* The chat path on its own: the consumer stands still, the backend holds a
\* transcript for any of the tasks, and the requests run on the thread pool.
ChatInit ==
    /\ ConsumerInit
    /\ collection \in {{}, IndexedDocs}
    /\ NoChats
    /\ conv \in [TaskIds -> {<<>>}] \cup {[t \in TaskIds |-> History(t)]}
    /\ ingest = NoIngest
    /\ retrieval = NoRetrieval
    /\ chunk_call = NoChunking
    /\ PollerInit

ChatNext ==
    \/ \E r \in Requests : ChatStart(r)
    \/ \E r \in Requests : LoadGet(r)
    \/ \E r \in Requests : LoadReset(r)
    \/ \E r \in Requests : LoadAppend(r)
    \/ \E r \in Requests : ResetMemory(r)
    \/ \E r \in Requests : Retrieve(r)
    \/ \E r \in Requests : AppendUser(r)
    \/ \E r \in Requests : ModelCall(r)
    \/ \E r \in Requests : AppendAssistant(r)
    \/ \E r \in Requests : UpdateConversation(r)

ChatSpec == ChatInit /\ [][ChatNext]_vars

\* embed_text on its own, once, on an article of up to MaxChunks chunks
EmbedNext ==
    \/ IngestChunks

EmbedSpec == Init /\ [][EmbedNext]_vars

\* retrieve_text on its own, once, over the larger index
RetrieveInit ==
    /\ ConsumerInit
    /\ collection = LargerIndex
    /\ NoChats
    /\ conv = [t \in TaskIds |-> <<>>]
    /\ ingest = NoIngest
    /\ retrieval = NoRetrieval
    /\ chunk_call = NoChunking
    /\ PollerInit

RetrieveNext ==
    \/ RetrieveText

RetrieveSpec == RetrieveInit /\ [][RetrieveNext]_vars

\* chunk_text on its own, once
ChunkInit ==
    /\ ConsumerInit
    /\ collection = {}
    /\ NoChats
    /\ conv = [t \in TaskIds |-> <<>>]
    /\ ingest = NoIngest
    /\ retrieval = NoRetrieval
    /\ chunk_call \in ChunkCalls
    /\ PollerInit

ChunkNext ==
    \/ ChunkText

ChunkSpec == ChunkInit /\ [][ChunkNext]_vars

\* The poller and the requests that read its flag.  The threads are
\* scheduled, so every step of theirs that stays possible is taken; the
\* poller, waiting for the lock that requests take and give back, gets it.
PollerNext ==
    \/ OllamaChanges
    \/ FirstCheck
    \/ PollerAcquire
    \/ SetReady
    \/ Notify
    \/ LoopTest
    \/ LoopCheck
    \/ Sleep
    \/ IsLoadedAcquire
    \/ IsLoadedRead
    \/ IsLoadedReturn

PollerSteps ==
    FirstCheck \/ SetReady \/ Notify \/ LoopTest \/ LoopCheck \/ Sleep

PollerFairness ==
    /\ WF_vars(PollerSteps)
    /\ SF_vars(PollerAcquire)
    /\ WF_vars(IsLoadedRead)

PollerSpec == Init /\ [][PollerNext]_vars /\ PollerFairness

(***************************************************************************)
(* Properties of the consumer.                                             *)
(***************************************************************************)
Terminal == {"done", "failed"}

\* the url and the task id of the item the iteration under way dequeued
ItUrl == it.item.url

ItTask == it.item.uuid

\* the except clause's write of "failed" has returned
FailureRecorded ==
    \/ pc \in {"except_get_mapping", "except_set_mapping", "blpop"}
    \/ pc = "crashed" /\ it.crashed_at = "mapping"

\* C1: once the status of a task is done or failed, the consumer never
\* writes another value to it: in the values a task's status takes one
\* after the other, done and failed come last.
C1_TerminalStatusIsFinal ==
    \A t \in TaskIds :
        \A i \in 1..Len(statusLog[t]) :
            statusLog[t][i] \in Terminal => i = Len(statusLog[t])

\* C2, as claimed: once the summary or the sentiment call has raised,
\* process_article raises to redis_worker, so the iteration neither reaches
\* the cache write nor records the task as done.
C2_ModelFailureFailsTheTask ==
    it.model_raised =>
        /\ pc \notin {"set_cache", "set_done", "set_mapping_done", "publish"}
        /\ ~it.cache_written
        /\ ~it.done_written

\* C2, amended: process_article never raises to redis_worker; once the
\* summary or the sentiment call has raised it returns DefaultResult, which
\* is what the consumer then caches for the url and publishes, and the
\* consumer goes on to record the task as done.
C2_ModelFailureYieldsDefault ==
    /\ it.failed_at # "process_article"
    /\ it.model_raised =>
          /\ pc \in {"set_cache", "set_done", "set_mapping_done", "publish"}
                => frame.result = DefaultResult
          /\ it.cache_written
                => cache[ItUrl] = ResultEntry(ItUrl, DefaultResult)
          /\ it.pubs > 0
                => published[Len(published)].result = ResultEntry(ItUrl, DefaultResult)
          /\ it.done_written => it.cache_written /\ "done" \in
                {statusLog[ItTask][i] : i \in 1..Len(statusLog[ItTask])}

C2_Witness ==
    /\ it.model_raised
    /\ it.done_written
    /\ status[ItTask] = "done"
    /\ cache[ItUrl].summary = DefaultResult.summary

C4_DoneImpliesCached ==
    \A t \in TaskIds :
        status[t] = "done" =>
            /\ cache[taskUrl[t]].present
            /\ cache[taskUrl[t]].url = taskUrl[t]
            /\ cache[taskUrl[t]].summary \in {ModelSummary, DefaultResult.summary}
            /\ cache[taskUrl[t]].sentiment \in {ModelSentiment, DefaultResult.sentiment}
            /\ cache[taskUrl[t]].conversation = <<>>

C4_Witness ==
    \E t \in TaskIds : status[t] = "done" /\ cache[taskUrl[t]].summary = ModelSummary

\* C5: per task at most one notification is published; it carries the
\* task's id and url, and at its publication the iteration has written the
\* cache entry and the status done; an iteration that ends without an
\* exception has published exactly one.
Notifications(t) == {i \in 1..Len(published) : published[i].uuid = t}

C5_OneNotification ==
    /\ \A t \in TaskIds : Cardinality(Notifications(t)) <= 1
    /\ \A i \in 1..Len(published) :
          /\ published[i].url = taskUrl[published[i].uuid]
          /\ cache[published[i].url].present
          /\ "done" \in {statusLog[published[i].uuid][k] :
                            k \in 1..Len(statusLog[published[i].uuid])}
    /\ it.pubs <= 1
    /\ it.pubs = 1 =>
          /\ it.cache_written /\ it.done_written
          /\ published[Len(published)].uuid = ItTask
          /\ published[Len(published)].url = ItUrl
    /\ pc = "blpop" /\ it.item.kind = "ok" /\ it.failed_at = "none"
          => it.pubs = 1 /\ Cardinality(Notifications(ItTask)) = 1

C5_Witness ==
    /\ pc = "blpop"
    /\ it.pubs = 1
    /\ Len(published) = 2

\* C6: no exception ends redis_worker: the thread never leaves the loop.
C6_WorkerKeepsRunning == pc # "crashed"

\* C7: no task stays in processing: once the consumer has stopped taking
\* steps for good, no status is processing.
C7_NoTaskLeftProcessing ==
    pc = "crashed" => \A t \in TaskIds : status[t] # "processing"

\* C8: at most one task has status processing, it is the task of the
\* iteration under way, and when the consumer stands at the dequeue the task
\* it dequeued before has status done or failed.
C8_OneTaskAtATime ==
    /\ Cardinality({t \in TaskIds : status[t] = "processing"}) <= 1
    /\ \A t \in TaskIds :
          status[t] = "processing" /\ pc # "crashed"
              => pc # "blpop" /\ t = ItTask /\ it.item.kind = "ok"
    /\ pc = "blpop" /\ it.item.kind = "ok" => status[ItTask] \in Terminal

C8_Witness ==
    /\ \E t \in TaskIds : status[t] \in Terminal
    /\ \E t \in TaskIds : status[t] = "processing"

\* C10: embed_text never raises to process_article, and whatever became of
\* chunking, of the embedding calls and of the index write, the next call
\* after embed_text is the summary call, and the sentiment call follows a
\* summary call that returned.
C10_IngestionNeverAborts ==
    /\ ~it.embed_raised
    /\ it.embed_done /\ ~it.summary_called => pc = "pa_summary"
    /\ pc = "pa_summary" => it.embed_done
    /\ pc = "pa_sentiment" => it.summary_called /\ ~it.model_raised
    /\ it.sentiment_called => it.summary_called
    /\ it.summary_called => it.embed_done

C10_Witness ==
    /\ it.embed_caught
    /\ it.sentiment_called
    /\ ~it.model_raised
    /\ pc = "set_cache"

(***************************************************************************)
(* Properties of the chat path.                                            *)
(***************************************************************************)
\* the turns of a list are the system turn's or those of chats of task t
OnlyTurnsOf(turns, t) ==
    \A k \in 1..Len(turns) : turns[k].content.task \in {0, t}

\* C9: chat requests for different task ids that overlap keep their
\* transcripts apart: the message list a request sent to the model and the
\* transcript it posted for its task hold turns of that task only (the
\* rehydrated ones and its new user and assistant turn), never a turn of a
\* request for another task.
C9_TranscriptsNeverInterleave ==
    \A r \in Requests :
        /\ OnlyTurnsOf(chat[r].sent, chat[r].uuid)
        /\ OnlyTurnsOf(chat[r].payload, chat[r].uuid)

(***************************************************************************)
(* Properties of embed_text.                                               *)
(***************************************************************************)
ArrayNames == {"ids", "embeddings", "documents", "metadatas"}

Front(seq) == SubSeq(seq, 1, Len(seq) - 1)

\* the batch with the last element of one of its four arrays taken away
Shortened(all, name) ==
    CASE name = "ids" -> [all EXCEPT !.ids = Front(@)]
      [] name = "embeddings" -> [all EXCEPT !.embeddings = Front(@)]
      [] name = "documents" -> [all EXCEPT !.documents = Front(@)]
      [] name = "metadatas" -> [all EXCEPT !.metadatas = Front(@)]

EqualLengths(all) ==
    /\ Len(all.ids) = Len(all.embeddings)
    /\ Len(all.ids) = Len(all.documents)
    /\ Len(all.ids) = Len(all.metadatas)

\* C11: whatever the embedding call does for each chunk (a vector, a
\* malformed response, an empty embedding, an exception), every call of
\* collection.add gets ids, embeddings, documents and metadatas of one
\* length; and a batch whose four lengths differ (here: the batch of the
\* call with one array cut short) is not written at all.
C11_BatchArraysAligned ==
    /\ \A k \in 1..Len(ingest.calls) : EqualLengths(ingest.calls[k])
    /\ \A name \in ArrayNames, add \in {"ok", "raise"} :
         ingest.batch.ids # <<>> =>
             store_batch(Shortened(ingest.batch, name), add).calls = <<>>

\* a call was made with some chunks and without others
C11_Witness ==
    /\ ingest.done
    /\ Len(ingest.calls) = 1
    /\ Len(ingest.calls[1].ids) >= 1
    /\ Len(ingest.calls[1].ids) < Len(ingest.chunks)
    /\ \E k \in 1..Len(ingest.responses) : ingest.responses[k].kind = "raise"

\* a chunk passes when it is not blank, has MinChunkLen characters or more,
\* and the embedding call answered with a vector that is not empty
Passes(chunk, response) ==
    /\ ~IsBlank(chunk)
    /\ Len(chunk) >= MinChunkLen
    /\ response.kind = "ok"
    /\ response.vec # <<>>

\* the positions in the chunker's output, from 1, of the chunks that passed
PassingPositions ==
    SelectSeq([k \in 1..Len(ingest.chunks) |-> k],
              LAMBDA k : Passes(ingest.chunks[k], ingest.responses[k]))

\* C12: one ingest call calls collection.add at most once: once when a
\* chunk passed the blank, minimum-length and embedding checks, never when
\* none did; the batch holds the passing chunks and only them, in chunk
\* order, each with the id {task id}_chunk_{i}, i its position (from 0) in
\* the chunker's output, and with total_chunks the number of all chunks.
C12_OneWriteOfThePassingChunks ==
    ingest.done =>
        /\ Len(ingest.calls) = IF PassingPositions # <<>> THEN 1 ELSE 0
        /\ \A c \in 1..Len(ingest.calls) :
             LET batch == ingest.calls[c]
             IN  /\ Len(batch.documents) = Len(PassingPositions)
                 /\ Len(batch.ids) = Len(PassingPositions)
                 /\ Len(batch.metadatas) = Len(PassingPositions)
                 /\ \A j \in 1..Len(PassingPositions) :
                      LET k == PassingPositions[j]
                      IN  /\ batch.documents[j] = ingest.chunks[k]
                          /\ batch.ids[j] = <<ingest.uuid, "chunk", k - 1>>
                          /\ batch.metadatas[j].uuid = ingest.uuid
                          /\ batch.metadatas[j].chunk_index = k - 1
                          /\ batch.metadatas[j].total_chunks = Len(ingest.chunks)
        /\ collection = IF ingest.calls # <<>> /\ ingest.add = "ok"
                        THEN BatchDocs(ingest.calls[1]) ELSE {}

\* the first chunk failed its embedding and the second was written
C12_Witness ==
    /\ ingest.done
    /\ Len(ingest.chunks) >= 2
    /\ ~Passes(ingest.chunks[1], ingest.responses[1])
    /\ Len(ingest.calls) = 1
    /\ ingest.calls[1].ids = <<chunk_id(ingest.uuid, 1)>>
    /\ collection # {}

(***************************************************************************)
(* Properties of retrieve_text.                                            *)
(***************************************************************************)
\* the documents of the hits at the positions P, in the order of the hits
HitsAt(hits, P) ==
    LET at == SelectSeq([k \in 1..Len(hits) |-> k], LAMBDA k : k \in P)
    IN  [j \in 1..Len(at) |-> hits[at[j]].document]

\* the characters of part appear in whole, one after the other
Within(part, whole) ==
    \E from \in 1..(Len(whole) - Len(part) + 1) :
        SubSeq(whole, from, from + Len(part) - 1) = part

\* C13: the context that retrieve_text(uuid, prompt) returns is the join,
\* with single spaces, of at most 3 documents whose metadata holds the
\* asking uuid, in the order in which the index ranked them among its hits;
\* no document indexed under another task id appears in the context.
C13_ContextOfOwnDocumentsInRankOrder ==
    retrieval.done /\ retrieval.context # <<>> =>
        /\ \E P \in SUBSET (1..Len(retrieval.query.hits)) :
             /\ Cardinality(P) <= TopChunks
             /\ \A k \in P : retrieval.query.hits[k].metadata.uuid = retrieval.uuid
             /\ retrieval.context = Join(HitsAt(retrieval.query.hits, P))
        /\ \A doc \in collection :
             doc.metadata.uuid # retrieval.uuid =>
                 ~Within(doc.document, retrieval.context)

\* a document of another task was ranked first, and the task has more
\* documents among the hits than a context takes
C13_Witness ==
    /\ retrieval.done
    /\ retrieval.context # <<>>
    /\ retrieval.query.hits[1].metadata.uuid # retrieval.uuid
    /\ Len(FilterByUuid(retrieval.query.hits, retrieval.uuid)) > TopChunks

\* the steps of chat that come after the retrieval
AfterRetrieval == {"append_user", "model", "append_assistant", "update", "done"}

\* C14: retrieve_text never raises: for a task without indexed chunks, and
\* when the embedding call or the index query fails or answers with
\* something malformed, it returns the empty string, and the chat that
\* called it goes on without a context.
C14_RetrievalNeverRaises ==
    \A r \in Requests :
        /\ ~chat[r].retrieve_raised
        /\ chat[r].retrieval \in {"failed", "no hits"} =>
               /\ chat[r].context = <<>>
               /\ chat[r].pc \in AfterRetrieval
               /\ chat[r].pc = "done" => chat[r].result \in {"success", "error"}

\* a chat whose retrieval failed, and one of a task without chunks, went on
\* to their answers
C14_Witness ==
    /\ \E r \in Requests :
         /\ chat[r].retrieval = "failed"
         /\ chat[r].pc = "done"
         /\ chat[r].result = "success"
    /\ \E r \in Requests :
         /\ chat[r].retrieval = "no hits"
         /\ chat[r].pc = "done"
         /\ chat[r].result = "success"

(***************************************************************************)
(* Properties of the conversation memory.                                  *)
(***************************************************************************)
\* C15: after any sequence of reset_memory, load_conversation_from_backend
\* and chat calls, those that fail part-way included, the memory is not
\* empty and its first element is the fixed system turn.
C15_MemoryStartsWithSystemTurn ==
    /\ memory # <<>>
    /\ Head(memory) = SystemTurn

\* a chat whose model call raised and a chat that went through have both
\* worked on the memory
C15_Witness ==
    /\ Len(memory) > 1
    /\ \E r \in Requests : chat[r].pc = "done" /\ chat[r].result = "error"
    /\ \E r \in Requests : chat[r].pc = "done" /\ chat[r].result = "success"

\* request r ends its rehydration with this step: the load returned True,
\* or it returned False and chat_endpoint has reset the memory
EndsRehydration(r) ==
    /\ chat[r].pc \in {"load_append", "reset"}
    /\ chat'[r].pc = "retrieve"

\* C16: the rehydration before a chat leaves the memory in one of two
\* states: the system turn followed by the persisted turns in their order,
\* when the backend returned a transcript that is not empty and all of it
\* was loaded; the system turn alone in every other case (no such task, an
\* empty transcript, a failed read, an exception after some turns were
\* appended).
C16_RehydrationLeavesOneOfTwoStates ==
    [][\A r \in Requests :
         EndsRehydration(r) =>
             memory' = IF chat'[r].loaded
                       THEN <<SystemTurn>> \o chat'[r].entries
                       ELSE <<SystemTurn>>]_vars

(***************************************************************************)
(* Properties of chat.                                                     *)
(***************************************************************************)
\* the user turn that chat appends for request r, main.py:413-418
UserTurnOf(r) ==
    Turn("user", Content(chat[r].uuid, chat[r].context, chat[r].message))

\* the assistant turn that chat appends for request r, main.py:423-428
AssistantTurnOf(r) ==
    Turn("assistant", Content(chat[r].uuid, <<>>, chat[r].answer))

Holds(mem, turn) == \E k \in 1..Len(mem) : mem[k] = turn

\* the model call of request r raises in this step
ModelCallRaises(r) ==
    /\ chat[r].pc = "model"
    /\ chat'[r].pc = "done"

\* C17: when the model call inside chat raises, the error goes out of chat
\* to its caller, no assistant turn is appended, the persisted transcript
\* is not written, and the user turn that was appended before the model
\* call is still in the in-process memory.
C17_ModelFailureKeepsUserTurn ==
    [][\A r \in Requests :
         ModelCallRaises(r) =>
             /\ chat'[r].result = "error"
             /\ memory' = memory
             /\ conv' = conv
             /\ Holds(memory', UserTurnOf(r))]_vars

\* the persisting of request r fails in this step
PersistFails(r) ==
    /\ chat[r].pc = "update"
    /\ chat'[r].pc = "done"
    /\ ~chat'[r].posted

\* C18: when the model call of a chat succeeds and the persisting of the
\* transcript fails (an exception, a timeout, an answer other than 200),
\* chat returns the generated answer and raises nothing, and the in-process
\* memory holds the new user turn and the new assistant turn.
C18_PersistFailureKeepsAnswer ==
    [][\A r \in Requests :
         PersistFails(r) =>
             /\ chat'[r].result = "success"
             /\ chat'[r].answer = "answer"
             /\ conv' = conv
             /\ Holds(memory', UserTurnOf(r))
             /\ Holds(memory', AssistantTurnOf(r))]_vars

Last(seq) == seq[Len(seq)]

\* the task of request r has no chunk in the index
NoChunksOf(r) == \A doc \in collection : doc.metadata.uuid # chat[r].uuid

\* the raw message of request r as a user turn, without a context
RawUserTurnOf(r) == Turn("user", Content(chat[r].uuid, <<>>, chat[r].message))

\* C19: in a chat on a task without indexed chunks the model is called with
\* the whole memory, whose last turn is the user turn with the raw message;
\* the answer is appended as an assistant turn right after that user turn;
\* the transcript posted for persisting is the memory's turns other than
\* the system turn, in order, ending with that user turn and that
\* assistant turn.
C19_ChatWithoutChunks ==
    [][\A r \in Requests :
         NoChunksOf(r) =>
             /\ (chat[r].pc = "model" /\ chat'[r].pc # "model") =>
                    /\ chat'[r].sent = memory
                    /\ Last(memory) = RawUserTurnOf(r)
             /\ (chat[r].pc = "append_assistant" /\ chat'[r].pc = "update") =>
                    /\ Last(memory) = RawUserTurnOf(r)
                    /\ memory' = Append(memory, AssistantTurnOf(r))
             /\ (chat[r].pc = "update" /\ chat'[r].pc = "done") =>
                    /\ chat'[r].payload = conversation_entries(memory)
                    /\ Len(chat'[r].payload) >= 2
                    /\ Last(chat'[r].payload) = AssistantTurnOf(r)
                    /\ Last(Front(chat'[r].payload)) = RawUserTurnOf(r)]_vars

\* the persisting of request r succeeds in this step
PersistSucceeds(r) ==
    /\ chat[r].pc = "update"
    /\ chat'[r].pc = "done"
    /\ chat'[r].posted

\* C25: a successful chat loses no persisted history.  When the backend
\* holds a transcript for the task as a chat request arrives and the
\* persisting of that request succeeds, the transcript persisted then is
\* the earlier one followed by the new user turn and the new assistant
\* turn, also when the rehydration read failed or did not find the task
\* and the memory was reset before the chat.
C25_SuccessfulChatKeepsHistory ==
    [][\A r \in Requests :
         PersistSucceeds(r) =>
             conv'[chat[r].uuid] =
                 chat[r].before \o <<UserTurnOf(r), AssistantTurnOf(r)>>]_vars

(***************************************************************************)
(* Properties of the readiness poller.                                     *)
(***************************************************************************)
\* the notification is sent at most once, only after readiness was
\* observed and the flag was set; a poller that has finished has sent it
NotifiedOnceWhenReady ==
    /\ Len(poller.notified) <= 1
    /\ poller.notified # <<>> =>
           /\ poller.observed
           /\ models_ready
           /\ \A k \in 1..Len(poller.ready_at_notify) : poller.ready_at_notify[k]
    /\ poller.pc = "finished" =>
           /\ poller.observed
           /\ models_ready
           /\ Len(poller.notified) = 1

\* /api/ps reports the required model as loaded
ReportsLoaded == check_models_ready(ollama)

\* C20: over the lifetime of the readiness poller the backend notification
\* is sent exactly once if readiness is ever observed, and never before;
\* models_ready is set to true before the notification and never goes back
\* to false; and if the model service from some time on reports the
\* required model as loaded, the flag becomes true and the poller ends.
C20_ReadinessNotifiedOnce ==
    /\ []NotifiedOnceWhenReady
    /\ [][models_ready => models_ready']_vars
    /\ (poller.observed ~> Len(poller.notified) = 1)
    /\ (<>[]ReportsLoaded => <>(models_ready /\ poller.pc = "finished"))

\* the poller found the model not loaded, slept, found it loaded later, and
\* has finished with its one notification
C20_Witness ==
    /\ poller.pc = "finished"
    /\ poller.slept
    /\ models_ready
    /\ Len(poller.notified) = 1

(***************************************************************************)
(* Properties of chunk_text.                                               *)
(***************************************************************************)
ChunkReturned == chunk_call.pc = "returned"

\* C21: splitting the single-space join of the chunks chunk_text returns
\* gives the words of the text, in order, none dropped, repeated or moved;
\* no chunk is empty, and a text without words gives no chunk.
C21_ChunksKeepTheWords ==
    ChunkReturned =>
        /\ Split(Join(chunk_call.chunks)) = Split(chunk_call.text)
        /\ \A k \in 1..Len(chunk_call.chunks) : chunk_call.chunks[k] # <<>>
        /\ IsBlank(chunk_call.text) => chunk_call.chunks = <<>>

\* a text of three words, broken by both kinds of whitespace, came back
\* in more than one chunk
C21_Witness ==
    /\ ChunkReturned
    /\ Len(Split(chunk_call.text)) = 3
    /\ \E i \in 1..Len(chunk_call.text) : chunk_call.text[i] = "\n"
    /\ Len(chunk_call.chunks) = 2

\* the number of words of a chunk and its size estimate, in tenths
WordsOf(chunk) == Len(Split(chunk))
Estimate(chunk) == WordsOf(chunk) * WordWeight

\* a chunk that is followed by another was closed because one more word
\* would have passed the size; a chunk of several words was not left open
\* past the size; and the next chunk starts with the word that did not fit
ClosedAtOverflow(chunks, text, max_chunk_size) ==
    \A k \in 1..Len(chunks) :
        /\ WordsOf(chunks[k]) >= 2 => Estimate(chunks[k]) <= max_chunk_size
        /\ k < Len(chunks) =>
              /\ Estimate(chunks[k]) + WordWeight > max_chunk_size
              /\ LET before == Len(Split(Join(SubSeq(chunks, 1, k))))
                 IN  /\ before < Len(Split(text))
                     /\ Split(chunks[k + 1])[1] = Split(text)[before + 1]

ConsumerStep == nextId' = nextId

\* C23: mirroring a status into the mapping row is best-effort.  A failure
\* while reading, decoding or writing the row, at the processing step or at
\* the done step, does not change the status of the task: it is not recorded
\* as failed for it, and a task whose status write of done succeeded after
\* its scrape, model calls and cache write stays done; and the consumer
\* creates no mapping row for a url that had none.
C23_MirrorIsBestEffort ==
    [][/\ it'.failed_at = "mapping" => status'[it'.item.uuid] # "failed"
       /\ it'.done_written /\ it'.failed_at \in {"none", "mapping"} =>
              status'[it'.item.uuid] = "done"
       /\ ConsumerStep =>
              \A u \in Urls : url_task[u].kind = "none" => url_task'[u].kind = "none"
      ]_vars

\* task t was taken up by the consumer in some iteration
Processed(t) == Len(statusLog[t]) > 1

\* C24: a failure while handling one queue item changes that item's records
\* only.  When the dequeue, the decoding or the field extraction fails, so
\* that the item's task id and url are not both known, the failure handler
\* writes neither the status of a task of an earlier iteration nor the
\* mapping row of such a task's url.
C24_FailureTouchesOwnRecordsOnly ==
    [][it.failed_at = "dequeue" /\ ConsumerStep =>
          \A t \in TaskIds :
              Processed(t) =>
                  /\ status'[t] = status[t]
                  /\ url_task'[taskUrl[t]] = url_task[taskUrl[t]]
      ]_vars

\* the statuses the consumer mirrors
MirroredStatuses == {"processing", "done", "failed"}

\* C26: a mirror write of the consumer changes the status field of the
\* mapping row as the row is at the time of the write, and nothing else:
\* when the producer has rewritten the row while the task was being
\* processed, say with a new task id for the same url, the write of done
\* (or of processing, or of failed) does not put back the task id or any
\* other field as it was read earlier.
C26_MirrorWritesOnlyTheStatus ==
    [][ConsumerStep =>
          \A u \in Urls :
              url_task'[u] # url_task[u] =>
                  \E value \in MirroredStatuses :
                      url_task'[u] = WithStatus(url_task[u], value)]_vars

=============================================================================
